---- MODULE Spec2Model ----
(***************************************************************************)
(* polymorphio (src/src/lib.rs): FileOrStdin / FileOrStdout, the handles   *)
(* that wrap either a file or a process standard stream, chosen by the     *)
(* path "-", and their locked views FileOrStdinLock / FileOrStdoutLock.    *)
(*                                                                         *)
(* The library's own code is a thin layer over std::fs::File, BufReader,   *)
(* BufWriter, Stdin and Stdout; those are modelled here as the operators   *)
(* File_*, BufReader_*, BufWriter_*, Read_*, Write_* by what the standard  *)
(* library does at the call sites of lib.rs.                               *)
(***************************************************************************)
EXTENDS Integers, Sequences, FiniteSets, TLC

(***************************************************************************)
(* Bounds of the model.                                                    *)
(***************************************************************************)
\* longest byte buffer a caller passes, and longest initial file / stdin input
MaxLen == 3
\* capacity of the buffered adapters (BufReader::new / BufWriter::new use
\* 8 KiB; scaled down so that buffers smaller than, equal to and larger than
\* the capacity all occur)
BufCap == 2
\* largest amount of free space the disk starts with
MaxDisk == 3
\* number of standard-output views that may be taken in one run
MaxSessions == 2
\* size of the chunks read_to_end asks for (std probes with a small buffer
\* first, smaller than the capacity of the buffered adapter)
ProbeSize == 1

(***************************************************************************)
(* Values.                                                                 *)
(***************************************************************************)
\* 97, 98 are ASCII text; 255 (0xFF) never occurs in valid UTF-8
Byte == {97, 98, 255}

Min(a, b) == IF a < b THEN a ELSE b

Max(a, b) == IF a < b THEN b ELSE a

Drop(s, n) == SubSeq(s, n + 1, Len(s))

Take(s, n) == SubSeq(s, 1, n)

SeqsUpTo(S, n) == UNION {[1..k -> S] : k \in 0..n}

\* io::Result: Ok(v) / Err(e).  An io::Error built by std from a failed
\* system call carries the error kind (the OS error code) and nothing else.
Ok(v) == [ok |-> TRUE, val |-> v]

IoError(kind) == [kind |-> kind]

Err(kind) == [ok |-> FALSE, err |-> IoError(kind)]

(***************************************************************************)
(* Paths.  A PathBuf is a sequence of path bytes; "xFF" stands for a byte  *)
(* that is not valid text.                                                 *)
(***************************************************************************)
STDIO_FILENAME == <<"-">>

PDash == <<"-">>

PEmpty == <<>>

PDashDash == <<"-", "-">>

PDotDash == <<".", "/", "-">>

PAB == <<"a", "-", "b">>

PNonText == <<"xFF">>

AllPaths == {PDash, PEmpty, PDashDash, PDotDash, PAB, PNonText}

\* Path::to_string_lossy: a non-text byte becomes U+FFFD
ToStringLossy(p) == [i \in 1..Len(p) |-> IF p[i] = "xFF" THEN "uFFFD" ELSE p[i]]

\* the sentinel test made on the entry the path names, "./-" included
IsStdioFileName(p) == p \in {PDash, PDotDash}

\* the sentinel test of both from_path functions
IsStdio(p) == ToStringLossy(p) = STDIO_FILENAME

\* The directory entries of the working directory the model keeps.
FileNames == {"-", "--", "a-b", "xFF"}

NoName == "ENOENT"

\* what the operating system resolves a path to: the empty path names
\* nothing, "./-" names the entry "-"
Resolve(p) ==
    IF p = PEmpty THEN NoName
    ELSE IF p = PDotDash \/ p = PDash THEN "-"
    ELSE IF p = PDashDash THEN "--"
    ELSE IF p = PAB THEN "a-b"
    ELSE "xFF"

NoFile == [exists |-> FALSE, data |-> <<>>]

RegFile(d) == [exists |-> TRUE, data |-> d]

\* free == Unbounded: a sink that never refuses bytes (the terminal)
Unbounded == 0 - 1

(***************************************************************************)
(* std::fs::File                                                           *)
(***************************************************************************)
\* File::open(path): fails with NotFound unless the entry exists
File_open(fsys, p) ==
    IF Resolve(p) = NoName \/ ~fsys[Resolve(p)].exists
    THEN Err("NotFound")
    ELSE Ok([name |-> Resolve(p), off |-> 0])

\* File::create(path): create or truncate; the truncated bytes are freed
File_create(fsys, free, p) ==
    IF Resolve(p) = NoName
    THEN [res |-> Err("NotFound"), fs |-> fsys, free |-> free]
    ELSE [res  |-> Ok([name |-> Resolve(p), off |-> 0]),
          fs   |-> [fsys EXCEPT ![Resolve(p)] = RegFile(<<>>)],
          free |-> free + Len(fsys[Resolve(p)].data)]

\* <File as Read>::read into a buffer of n bytes at offset off
File_read(data, off, n) ==
    LET got == SubSeq(data, off + 1, Min(Len(data), off + n))
    IN  [bytes |-> got, off |-> off + Len(got)]

\* <File as Write>::write of d at offset s.off.  A sink s is
\* [data, off, free]: the bytes it holds, the descriptor's offset and the
\* space left.  A full disk refuses the write (StorageFull); a nearly full
\* one accepts the part that fits (a short write).
File_write(s, d) ==
    IF d = <<>> THEN [res |-> Ok(0), s |-> s]
    ELSE IF s.free = 0 THEN [res |-> Err("StorageFull"), s |-> s]
    ELSE LET n == IF s.free = Unbounded THEN Len(d) ELSE Min(Len(d), s.free)
             grown == Max(0, s.off + n - Len(s.data))
         IN  [res |-> Ok(n),
              s   |-> [data |-> Take(s.data, s.off) \o Take(d, n)
                                  \o Drop(s.data, s.off + n),
                       off  |-> s.off + n,
                       free |-> IF s.free = Unbounded THEN Unbounded
                                ELSE s.free - grown]]

(***************************************************************************)
(* std::io::BufWriter over a sink.  A writer w is [buf, s]: the bytes      *)
(* buffered and the sink beneath.  An operation returns [res, w].          *)
(***************************************************************************)
RECURSIVE BufWriter_flush_buf(_)
RECURSIVE FlushWritten(_, _)
\* BufWriter::flush_buf: write the buffer out until it is empty; on an error
\* the bytes already written have left the buffer and the rest stay in it
BufWriter_flush_buf(w) ==
    IF w.buf = <<>> THEN [res |-> Ok(0), w |-> w]
    ELSE FlushWritten(w, File_write(w.s, w.buf))

\* one turn of flush_buf's loop, r being what the sink's write returned
FlushWritten(w, r) ==
    IF ~r.res.ok THEN [res |-> r.res, w |-> w]
    ELSE IF r.res.val = 0 THEN [res |-> Err("WriteZero"), w |-> w]
    ELSE BufWriter_flush_buf([buf |-> Drop(w.buf, r.res.val), s |-> r.s])

\* the end of BufWriter::write_cold: r is what the sink returned for a
\* write that went past the buffer
WriteThrough(w, r) == [res |-> r.res, w |-> [w EXCEPT !.s = r.s]]

\* BufWriter::write_cold after its flush_buf returned f: a d of at least the
\* capacity goes straight to the sink (which may accept only a part of
\* it), a smaller one into the now empty buffer
BufWriter_write_cold(f, d) ==
    IF ~f.res.ok THEN f
    ELSE IF Len(d) >= BufCap THEN WriteThrough(f.w, File_write(f.w.s, d))
    ELSE [res |-> Ok(Len(d)), w |-> [f.w EXCEPT !.buf = f.w.buf \o d]]

\* BufWriter::write: buffer d when it is shorter than the room left;
\* otherwise write_cold, which flushes first when d is longer than the room
BufWriter_write(w, d) ==
    IF Len(d) < BufCap - Len(w.buf)
    THEN [res |-> Ok(Len(d)), w |-> [w EXCEPT !.buf = w.buf \o d]]
    ELSE BufWriter_write_cold(
             IF Len(d) > BufCap - Len(w.buf) THEN BufWriter_flush_buf(w)
             ELSE [res |-> Ok(0), w |-> w],
             d)

\* BufWriter::flush: flush_buf, then the sink's own flush (a no-op)
BufWriter_flush(w) == BufWriter_flush_buf(w)

\* what is left once the adapter is gone: the sink, and whether the
\* discarded result f of the last flush_buf was Ok
Dropped(f) == [s |-> f.w.s, flushed |-> f.res.ok]

\* <BufWriter as Drop>::drop: `let _r = self.flush_buf();` -- the result is
\* discarded and whatever stayed in the buffer is gone with the adapter
BufWriter_drop(w) == Dropped(BufWriter_flush_buf(w))

RECURSIVE Write_write_all(_, _)
RECURSIVE WriteAllWritten(_, _)
\* Write::write_all, the provided method: call write until d is used up
Write_write_all(w, d) ==
    IF d = <<>> THEN [res |-> Ok(0), w |-> w]
    ELSE WriteAllWritten(BufWriter_write(w, d), d)

\* one turn of write_all's loop, r being what write returned: Ok(0) is the
\* error WriteZero, any other error is returned as it is
WriteAllWritten(r, d) ==
    IF ~r.res.ok THEN r
    ELSE IF r.res.val = 0 THEN [res |-> Err("WriteZero"), w |-> r.w]
    ELSE Write_write_all(r.w, Drop(d, r.res.val))

(***************************************************************************)
(* std::io::BufReader over a source.  A reader r is [rem, data, off]: the  *)
(* bytes read ahead and not yet consumed, the bytes of the source and the  *)
(* descriptor's offset into them.                                          *)
(***************************************************************************)
\* the buffer refilled with what the source's read returned
Filled(r, g) == [r EXCEPT !.rem = g.bytes, !.off = g.off]

\* BufReader::fill_buf: read up to the capacity when nothing is buffered
BufReader_fill_buf(r) ==
    IF r.rem # <<>> THEN r ELSE Filled(r, File_read(r.data, r.off, BufCap))

\* BufReader::consume
BufReader_consume(r, amt) == [r EXCEPT !.rem = Drop(r.rem, Min(amt, Len(r.rem)))]

\* a read that went past the buffer: g is what the source's read returned
ReadThrough(r, g) == [bytes |-> g.bytes, r |-> [r EXCEPT !.off = g.off]]

\* a read served from the buffer f that fill_buf returned
ReadBuffered(f, n) ==
    [bytes |-> Take(f.rem, Min(n, Len(f.rem))),
     r     |-> BufReader_consume(f, Min(n, Len(f.rem)))]

\* BufReader::read into a buffer of n bytes: with nothing buffered and n at
\* least the capacity the read goes straight to the source; otherwise the
\* buffer is filled and the bytes come from it
BufReader_read(r, n) ==
    IF r.rem = <<>> /\ n >= BufCap
    THEN ReadThrough(r, File_read(r.data, r.off, n))
    ELSE ReadBuffered(BufReader_fill_buf(r), n)

RECURSIVE Read_read_to_end(_, _, _)
RECURSIVE ReadToEndRead(_, _, _)
\* Read::read_to_end, the provided method: read in chunks of n bytes until a
\* read returns 0 bytes
Read_read_to_end(r, n, acc) == ReadToEndRead(BufReader_read(r, n), n, acc)

\* one turn of read_to_end's loop, g being what read returned
ReadToEndRead(g, n, acc) ==
    IF g.bytes = <<>> THEN [bytes |-> acc, r |-> g.r]
    ELSE Read_read_to_end(g.r, n, acc \o g.bytes)

\* str::from_utf8 over the model's bytes
IsUtf8(d) == \A i \in 1..Len(d) : d[i] < 128

\* the end of read_to_string: InvalidData unless the bytes g read are text
Decoded(g) ==
    [res |-> IF IsUtf8(g.bytes) THEN Ok(g.bytes) ELSE Err("InvalidData"),
     r   |-> g.r]

\* Read::read_to_string, the provided method: read to the end, then fail
\* with InvalidData unless the bytes are valid text
Read_read_to_string(r, n) == Decoded(Read_read_to_end(r, n, <<>>))

(***************************************************************************)
(* State.                                                                  *)
(***************************************************************************)
VARIABLES
    fs,          \* the working directory: entry name -> NoFile / RegFile(bytes)
    diskFree,    \* bytes the disk still accepts
    stdin,       \* the process's standard input: [data, off]
    stdinBuf,    \* bytes read ahead by the process-wide stdin buffer
    stdinOwner,  \* the thread holding the stdin lock, or NoThread
    stdoutDev,   \* bytes that reached the terminal, each tagged with its view
    stdoutBuf,   \* bytes in the process-wide stdout buffer
    stdoutOwner, \* the thread holding the stdout lock, or NoThread
    sessions,    \* number of stdout views taken so far
    rh,          \* per thread: its FileOrStdin handle
    rv,          \* per thread: the FileOrStdinLock borrowed from rh
    wh,          \* per thread: its FileOrStdout handle
    wv,          \* per thread: the FileOrStdoutLock borrowed from wh
    delivered,   \* per thread: [pos, b] of each byte its file views handed out
    lost,        \* per thread: positions read ahead by a view and dropped with it
    accepted,    \* per thread: the bytes its current view's writes accepted
    base,        \* per thread: length of the sink when the current view was taken
    last         \* the most recent call and what it returned

vars == <<fs, diskFree, stdin, stdinBuf, stdinOwner, stdoutDev, stdoutBuf,
          stdoutOwner, sessions, rh, rv, wh, wv, delivered, lost, accepted,
          base, last>>

fsVars == <<fs, diskFree>>

stdinVars == <<stdin, stdinBuf, stdinOwner>>

stdoutVars == <<stdoutDev, stdoutBuf, stdoutOwner, sessions>>

readerVars == <<rh, rv, delivered, lost>>

writerVars == <<wh, wv, accepted, base>>

Threads == {"T1", "T2"}

NoThread == "NoThread"

NoHandle == [variant |-> "None"]

NoView == [variant |-> "None"]

NoSys == [op |-> "none", path |-> <<>>]

\* the record kept of a call: the function, the calling thread, the path or
\* bytes passed, the result, the file system call it made and, for a call
\* that drops a view, whether the implicit flush got the buffer out
Call(fn, t, path, data, res, sys, flushed) ==
    [fn |-> fn, t |-> t, path |-> path, data |-> data, res |-> res,
     sys |-> sys, flushed |-> flushed]

\* no handle of any thread is open on the entry (two opens of one file are
\* the caller's responsibility and are not exercised)
NotOpen(name) ==
    \A u \in Threads :
        /\ rh[u].variant = "File" => rh[u].name # name
        /\ wh[u].variant = "File" => wh[u].name # name

Idle(t) == rh[t] = NoHandle /\ wh[t] = NoHandle

\* positions first, first + 1, ... paired with the bytes delivered
Tagged(first, bytes) ==
    [i \in 1..Len(bytes) |-> [pos |-> first + i - 1, b |-> bytes[i]]]

(***************************************************************************)
(* FileOrStdin                                                             *)
(***************************************************************************)
\* impl From<File> for FileOrStdin / FileOrStdout: Self::File(file)
FromFile(fd) == [variant |-> "File", name |-> fd.name, off |-> fd.off]

\* `File::open(path)?.into()`: the file wrapped, or the error as it came
OpenedFor(r, p) ==
    [res |-> IF r.ok THEN Ok(FromFile(r.val)) ELSE r,
     sys |-> [op |-> "open", path |-> p]]

\* FileOrStdin::from_path: Stdin for the sentinel, otherwise File::open
FileOrStdin_from_path(fsys, p) ==
    IF IsStdio(p)
    THEN [res |-> Ok([variant |-> "Stdin"]), sys |-> NoSys]
    ELSE OpenedFor(File_open(fsys, p), p)

\* lock with the arms mixed up: the stream lock for every handle
LockAsStdin(h) == [variant |-> "StdinLock"]

\* FileOrStdin::lock: BufReader::new(file) or stdin.lock()
FileOrStdin_lock(h) ==
    IF h.variant = "File"
    THEN [variant |-> "FileBufReader", rem |-> <<>>]
    ELSE [variant |-> "StdinLock"]

\* the BufReader a view v of a File handle h stands for
FileReader(h, v, fsys) == [rem |-> v.rem, data |-> fsys[h.name].data, off |-> h.off]

\* the process-wide BufReader a StdinLock gives access to
StdinReader == [rem |-> stdinBuf, data |-> stdin.data, off |-> stdin.off]

\* the reader behind thread t's view
ReaderOf(t) ==
    IF rv[t].variant = "FileBufReader" THEN FileReader(rh[t], rv[t], fs)
    ELSE StdinReader

\* read with the match arms mixed up: every view reads the standard stream
ReadFromStdinOnly(t, n) == BufReader_read(StdinReader, n)

\* <FileOrStdinLock as Read>::read
FileOrStdinLock_read(t, n) ==
    IF rv[t].variant = "FileBufReader"
    THEN BufReader_read(FileReader(rh[t], rv[t], fs), n)
    ELSE BufReader_read(StdinReader, n)

\* <FileOrStdinLock as BufRead>::fill_buf
FileOrStdinLock_fill_buf(t) ==
    IF rv[t].variant = "FileBufReader"
    THEN BufReader_fill_buf(FileReader(rh[t], rv[t], fs))
    ELSE BufReader_fill_buf(StdinReader)

\* <FileOrStdinLock as BufRead>::consume
FileOrStdinLock_consume(t, amt) ==
    IF rv[t].variant = "FileBufReader"
    THEN BufReader_consume(FileReader(rh[t], rv[t], fs), amt)
    ELSE BufReader_consume(StdinReader, amt)

\* the state after thread t's view has become the reader r
StoreReader(t, r) ==
    IF rv[t].variant = "FileBufReader"
    THEN /\ rv' = [rv EXCEPT ![t].rem = r.rem]
         /\ rh' = [rh EXCEPT ![t].off = r.off]
         /\ UNCHANGED <<stdin, stdinBuf>>
    ELSE /\ stdinBuf' = r.rem
         /\ stdin' = [stdin EXCEPT !.off = r.off]
         /\ UNCHANGED <<rh, rv>>

\* read_to_string's result: what the view's read_to_string returned (g), and
\* the process-wide stdin reader afterwards
ReadToStringRead(h, g, std) == [res |-> g.res, sys |-> h.sys, r |-> std]

\* `.lock().read_to_string(&mut string)?` on the handle h.res.val
ReadToStringLocked(h, v, fsys) ==
    IF v.variant = "FileBufReader"
    THEN ReadToStringRead(h,
             Read_read_to_string(FileReader(h.res.val, v, fsys), ProbeSize),
             StdinReader)
    ELSE ReadToStringRead(h, Read_read_to_string(StdinReader, ProbeSize),
                          Read_read_to_string(StdinReader, ProbeSize).r)

\* `Self::from_path(path)?`: an error of from_path is returned as it is
ReadToStringOpened(h, fsys) ==
    IF ~h.res.ok THEN [res |-> h.res, sys |-> h.sys, r |-> StdinReader]
    ELSE ReadToStringLocked(h, FileOrStdin_lock(h.res.val), fsys)

\* FileOrStdin::read_to_string(path): from_path(path)?.lock()
\* .read_to_string(&mut string)?, the temporaries dropped at the end
FileOrStdin_read_to_string(fsys, p) ==
    ReadToStringOpened(FileOrStdin_from_path(fsys, p), fsys)

\* ---- the calls a thread makes on the reading side ----

RFromPathReturns(t, p, h) ==
    /\ rh' = [rh EXCEPT ![t] = IF h.res.ok THEN h.res.val ELSE NoHandle]
    /\ last' = Call("FileOrStdin::from_path", t, p, <<>>, h.res, h.sys, TRUE)

RFromPath(t, p) ==
    /\ Idle(t)
    /\ IsStdio(p) \/ NotOpen(Resolve(p))
    /\ RFromPathReturns(t, p, FileOrStdin_from_path(fs, p))
    /\ delivered' = [delivered EXCEPT ![t] = <<>>]
    /\ lost' = [lost EXCEPT ![t] = {}]
    /\ UNCHANGED <<fsVars, stdinVars, stdoutVars, rv, writerVars>>

\* lock() on a Stdin handle returns once no thread holds the stdin lock
RLock(t) ==
    /\ rh[t] # NoHandle
    /\ rv[t] = NoView
    /\ rh[t].variant = "Stdin" => stdinOwner = NoThread
    /\ rv' = [rv EXCEPT ![t] = FileOrStdin_lock(rh[t])]
    /\ stdinOwner' = IF rh[t].variant = "Stdin" THEN t ELSE stdinOwner
    /\ last' = Call("FileOrStdin::lock", t, <<>>, <<>>, Ok(0), NoSys, TRUE)
    /\ UNCHANGED <<fsVars, stdin, stdinBuf, stdoutVars, rh, delivered, lost,
                   writerVars>>

\* r0 is the reader before the call, g what read returned
RReadReturns(t, n, r0, g) ==
    /\ StoreReader(t, g.r)
    /\ delivered' = [delivered EXCEPT
           ![t] = IF rv[t].variant = "FileBufReader"
                  THEN @ \o Tagged(r0.off - Len(r0.rem), g.bytes) ELSE @]
    /\ last' = Call("read", t, <<>>, n, Ok(Len(g.bytes)), NoSys, TRUE)

RRead(t, n) ==
    /\ rv[t] # NoView
    /\ RReadReturns(t, n, ReaderOf(t), FileOrStdinLock_read(t, n))
    /\ UNCHANGED <<fsVars, stdinOwner, stdoutVars, lost, writerVars>>

RFillBufReturns(t, r) ==
    /\ StoreReader(t, r)
    /\ last' = Call("fill_buf", t, <<>>, <<>>, Ok(r.rem), NoSys, TRUE)

RFillBuf(t) ==
    /\ rv[t] # NoView
    /\ RFillBufReturns(t, FileOrStdinLock_fill_buf(t))
    /\ UNCHANGED <<fsVars, stdinOwner, stdoutVars, delivered, lost, writerVars>>

\* r0 is the reader before the call, r the reader after it
RConsumeReturns(t, amt, r0, r) ==
    /\ amt <= Len(r0.rem)
    /\ StoreReader(t, r)
    /\ delivered' = [delivered EXCEPT
           ![t] = IF rv[t].variant = "FileBufReader"
                  THEN @ \o Tagged(r0.off - Len(r0.rem), Take(r0.rem, amt))
                  ELSE @]
    /\ last' = Call("consume", t, <<>>, amt, Ok(0), NoSys, TRUE)

\* consume(amt) after a fill_buf: amt is at most what fill_buf returned
RConsume(t, amt) ==
    /\ rv[t] # NoView
    /\ RConsumeReturns(t, amt, ReaderOf(t), FileOrStdinLock_consume(t, amt))
    /\ UNCHANGED <<fsVars, stdinOwner, stdoutVars, lost, writerVars>>

\* a release that seeks the descriptor back over the read-ahead
RDropViewRewinds(t) ==
    /\ rv[t] # NoView
    /\ rv' = [rv EXCEPT ![t] = NoView]
    /\ rh' = [rh EXCEPT ![t] =
           IF rv[t].variant = "FileBufReader"
           THEN [@ EXCEPT !.off = @ - Len(rv[t].rem)] ELSE @]
    /\ lost' = [lost EXCEPT ![t] =
           IF rv[t].variant = "FileBufReader"
           THEN @ \cup ((rh[t].off - Len(rv[t].rem)) .. (rh[t].off - 1))
           ELSE @]
    /\ stdinOwner' = IF rv[t].variant = "StdinLock" THEN NoThread ELSE stdinOwner
    /\ last' = Call("drop FileOrStdinLock", t, <<>>, <<>>, Ok(0), NoSys, TRUE)
    /\ UNCHANGED <<fsVars, stdin, stdinBuf, stdoutVars, delivered, writerVars>>

\* the view goes out of scope: a BufReader's read-ahead goes with it, a
\* StdinLock releases the stdin lock (the process-wide buffer stays)
RDropView(t) ==
    /\ rv[t] # NoView
    /\ rv' = [rv EXCEPT ![t] = NoView]
    /\ lost' = [lost EXCEPT ![t] =
           IF rv[t].variant = "FileBufReader"
           THEN @ \cup ((rh[t].off - Len(rv[t].rem)) .. (rh[t].off - 1))
           ELSE @]
    /\ stdinOwner' = IF rv[t].variant = "StdinLock" THEN NoThread ELSE stdinOwner
    /\ last' = Call("drop FileOrStdinLock", t, <<>>, <<>>, Ok(0), NoSys, TRUE)
    /\ UNCHANGED <<fsVars, stdin, stdinBuf, stdoutVars, rh, delivered, writerVars>>

\* the handle goes out of scope (the borrow rules want its view gone first)
RDropHandle(t) ==
    /\ rh[t] # NoHandle
    /\ rv[t] = NoView
    /\ rh' = [rh EXCEPT ![t] = NoHandle]
    /\ delivered' = [delivered EXCEPT ![t] = <<>>]
    /\ lost' = [lost EXCEPT ![t] = {}]
    /\ last' = Call("drop FileOrStdin", t, <<>>, <<>>, Ok(0), NoSys, TRUE)
    /\ UNCHANGED <<fsVars, stdinVars, stdoutVars, rv, writerVars>>

ReadToStringReturns(t, p, g) ==
    /\ stdinBuf' = g.r.rem
    /\ stdin' = [stdin EXCEPT !.off = g.r.off]
    /\ last' = Call("FileOrStdin::read_to_string", t, p, <<>>, g.res, g.sys, TRUE)

\* the convenience function; on "-" it waits for the stdin lock
ReadToString(t, p) ==
    /\ Idle(t)
    /\ IF IsStdio(p) THEN stdinOwner = NoThread ELSE NotOpen(Resolve(p))
    /\ ReadToStringReturns(t, p, FileOrStdin_read_to_string(fs, p))
    /\ UNCHANGED <<fsVars, stdinOwner, stdoutVars, readerVars, writerVars>>

(***************************************************************************)
(* FileOrStdout                                                            *)
(***************************************************************************)
\* `File::create(path)?.into()`: the file wrapped, or the error as it came
CreatedFor(r, p) ==
    [res  |-> IF r.res.ok THEN Ok(FromFile(r.res.val)) ELSE r.res,
     sys  |-> [op |-> "create", path |-> p],
     fs   |-> r.fs,
     free |-> r.free]

\* FileOrStdout::from_path: Stdout for the sentinel, otherwise File::create
FileOrStdout_from_path(fsys, free, p) ==
    IF IsStdio(p)
    THEN [res |-> Ok([variant |-> "Stdout"]), sys |-> NoSys, fs |-> fsys,
          free |-> free]
    ELSE CreatedFor(File_create(fsys, free, p), p)

\* FileOrStdout::lock: BufWriter::new(file) or stdout.lock(); k numbers the
\* stdout view
FileOrStdout_lock(h, k) ==
    IF h.variant = "File"
    THEN [variant |-> "FileBufWriter", buf |-> <<>>]
    ELSE [variant |-> "StdoutLock", session |-> k]

\* the BufWriter a view v of a File handle h stands for
FileWriter(h, v, fsys, free) ==
    [buf |-> v.buf, s |-> [data |-> fsys[h.name].data, off |-> h.off, free |-> free]]

\* the process-wide buffered writer a StdoutLock gives access to
StdoutWriter(buf, dev) ==
    [buf |-> buf, s |-> [data |-> dev, off |-> Len(dev), free |-> Unbounded]]

\* the bytes d as written through stdout view k
Stamp(d, k) == [i \in 1..Len(d) |-> [s |-> k, b |-> d[i]]]

\* the writer behind thread t's view
WriterOf(t) ==
    IF wv[t].variant = "FileBufWriter" THEN FileWriter(wh[t], wv[t], fs, diskFree)
    ELSE StdoutWriter(stdoutBuf, stdoutDev)

\* <FileOrStdoutLock as Write>::write
FileOrStdoutLock_write(t, d) ==
    IF wv[t].variant = "FileBufWriter"
    THEN BufWriter_write(FileWriter(wh[t], wv[t], fs, diskFree), d)
    ELSE BufWriter_write(StdoutWriter(stdoutBuf, stdoutDev), Stamp(d, wv[t].session))

\* flush that reports success and leaves the buffer as it is
FlushNothing(t) == [res |-> Ok(0), w |-> WriterOf(t)]

\* <FileOrStdoutLock as Write>::flush
FileOrStdoutLock_flush(t) ==
    IF wv[t].variant = "FileBufWriter"
    THEN BufWriter_flush(FileWriter(wh[t], wv[t], fs, diskFree))
    ELSE BufWriter_flush(StdoutWriter(stdoutBuf, stdoutDev))

\* the state after thread t's view has become the writer w
StoreWriter(t, w) ==
    IF wv[t].variant = "FileBufWriter"
    THEN /\ wv' = [wv EXCEPT ![t].buf = w.buf]
         /\ wh' = [wh EXCEPT ![t].off = w.s.off]
         /\ fs' = [fs EXCEPT ![wh[t].name].data = w.s.data]
         /\ diskFree' = w.s.free
         /\ UNCHANGED <<stdoutBuf, stdoutDev>>
    ELSE /\ stdoutBuf' = w.buf
         /\ stdoutDev' = w.s.data
         /\ UNCHANGED <<wh, wv, fs, diskFree>>

\* write_all's result on a file: r is what `write_buf.write_all(buf)`
\* returned and x what was left when write_buf was dropped
WriteAllDropped(h, r, x, out) ==
    [res  |-> r.res, sys |-> h.sys,
     fs   |-> [h.fs EXCEPT ![h.res.val.name].data = x.s.data],
     free |-> x.s.free, out |-> out, flushed |-> x.flushed]

\* write_all on a file, after `write_buf.write_all(buf)` returned r: the
\* function's value is r.res; write_buf and then writer are dropped
WriteAllWrote(h, r, out) == WriteAllDropped(h, r, BufWriter_drop(r.w), out)

\* write_all's result on stdout: r is what `write_buf.write_all(buf)`
\* returned; dropping a StdoutLock releases the lock and flushes nothing
WriteAllStdout(h, r) ==
    [res |-> r.res, sys |-> h.sys, fs |-> h.fs, free |-> h.free, out |-> r.w,
     flushed |-> TRUE]

\* `let mut write_buf = writer.lock(); write_buf.write_all(buf)`
WriteAllLocked(h, v, out, k, d) ==
    IF v.variant = "FileBufWriter"
    THEN WriteAllWrote(h,
             Write_write_all(FileWriter(h.res.val, v, h.fs, h.free), d), out)
    ELSE WriteAllStdout(h, Write_write_all(out, Stamp(d, k)))

\* `let mut writer = Self::from_path(path)?;`
WriteAllOpened(h, out, k, d) ==
    IF ~h.res.ok
    THEN [res |-> h.res, sys |-> h.sys, fs |-> h.fs, free |-> h.free,
          out |-> out, flushed |-> TRUE]
    ELSE WriteAllLocked(h, FileOrStdout_lock(h.res.val, k), out, k, d)

\* FileOrStdout::write_all(path, buf):
\*     let mut writer = Self::from_path(path)?;
\*     let mut write_buf = writer.lock();
\*     write_buf.write_all(buf)
\* The result is [res, sys, fs, free, out, flushed]: what is returned, the
\* file system call made, the directory and the free space afterwards, the
\* stdout writer afterwards, and whether the drop of write_buf flushed all.
FileOrStdout_write_all(fsys, free, out, k, p, d) ==
    WriteAllOpened(FileOrStdout_from_path(fsys, free, p), out, k, d)

\* ---- the calls a thread makes on the writing side ----

WFromPathReturns(t, p, h) ==
    /\ wh' = [wh EXCEPT ![t] = IF h.res.ok THEN h.res.val ELSE NoHandle]
    /\ fs' = h.fs
    /\ diskFree' = h.free
    /\ last' = Call("FileOrStdout::from_path", t, p, <<>>, h.res, h.sys, TRUE)

WFromPath(t, p) ==
    /\ Idle(t)
    /\ IsStdio(p) \/ NotOpen(Resolve(p))
    /\ WFromPathReturns(t, p, FileOrStdout_from_path(fs, diskFree, p))
    /\ accepted' = [accepted EXCEPT ![t] = <<>>]
    /\ base' = [base EXCEPT ![t] = 0]
    /\ UNCHANGED <<stdinVars, stdoutVars, readerVars, wv>>

\* lock() that does not wait for the stdout lock
WLockWithoutWaiting(t) ==
    /\ wh[t] # NoHandle
    /\ wv[t] = NoView
    /\ wh[t].variant = "Stdout" => sessions < MaxSessions
    /\ wv' = [wv EXCEPT ![t] = FileOrStdout_lock(wh[t], sessions + 1)]
    /\ stdoutOwner' = IF wh[t].variant = "Stdout" THEN t ELSE stdoutOwner
    /\ sessions' = IF wh[t].variant = "Stdout" THEN sessions + 1 ELSE sessions
    /\ accepted' = [accepted EXCEPT ![t] = <<>>]
    /\ base' = [base EXCEPT ![t] =
           IF wh[t].variant = "File" THEN Len(fs[wh[t].name].data)
           ELSE Len(stdoutDev) + Len(stdoutBuf)]
    /\ last' = Call("FileOrStdout::lock", t, <<>>, <<>>, Ok(0), NoSys, TRUE)
    /\ UNCHANGED <<fsVars, stdinVars, stdoutDev, stdoutBuf, readerVars, wh>>

\* lock() on a Stdout handle returns once no other thread holds the stdout
\* lock
WLock(t) ==
    /\ wh[t] # NoHandle
    /\ wv[t] = NoView
    /\ wh[t].variant = "Stdout" => stdoutOwner = NoThread /\ sessions < MaxSessions
    /\ wv' = [wv EXCEPT ![t] = FileOrStdout_lock(wh[t], sessions + 1)]
    /\ stdoutOwner' = IF wh[t].variant = "Stdout" THEN t ELSE stdoutOwner
    /\ sessions' = IF wh[t].variant = "Stdout" THEN sessions + 1 ELSE sessions
    /\ accepted' = [accepted EXCEPT ![t] = <<>>]
    /\ base' = [base EXCEPT ![t] =
           IF wh[t].variant = "File" THEN Len(fs[wh[t].name].data)
           ELSE Len(stdoutDev) + Len(stdoutBuf)]
    /\ last' = Call("FileOrStdout::lock", t, <<>>, <<>>, Ok(0), NoSys, TRUE)
    /\ UNCHANGED <<fsVars, stdinVars, stdoutDev, stdoutBuf, readerVars, wh>>

WWriteReturns(t, d, r) ==
    /\ StoreWriter(t, r.w)
    /\ accepted' = [accepted EXCEPT
           ![t] = IF r.res.ok THEN @ \o Take(d, r.res.val) ELSE @]
    /\ last' = Call("write", t, <<>>, d, r.res, NoSys, TRUE)

WWrite(t, d) ==
    /\ wv[t] # NoView
    /\ Len(accepted[t]) + Len(d) <= MaxLen
    /\ wv[t].variant = "StdoutLock" =>
           Len(stdoutDev) + Len(stdoutBuf) + Len(d) <= MaxLen
    /\ WWriteReturns(t, d, FileOrStdoutLock_write(t, d))
    /\ UNCHANGED <<stdinVars, stdoutOwner, sessions, readerVars, base>>

WFlushReturns(t, r) ==
    /\ StoreWriter(t, r.w)
    /\ last' = Call("flush", t, <<>>, <<>>, r.res, NoSys, r.res.ok)

WFlush(t) ==
    /\ wv[t] # NoView
    /\ WFlushReturns(t, FileOrStdoutLock_flush(t))
    /\ UNCHANGED <<stdinVars, stdoutOwner, sessions, readerVars, accepted, base>>

\* x is what BufWriter's drop left
WDropFileView(t, x) ==
    /\ fs' = [fs EXCEPT ![wh[t].name].data = x.s.data]
    /\ diskFree' = x.s.free
    /\ wh' = [wh EXCEPT ![t].off = x.s.off]
    /\ last' = Call("drop FileOrStdoutLock", t, <<>>, <<>>, Ok(0), NoSys, x.flushed)
    /\ UNCHANGED stdoutOwner

\* the view goes out of scope: a BufWriter flushes and discards the result,
\* a StdoutLock releases the stdout lock (the process-wide buffer stays)
WDropView(t) ==
    /\ wv[t] # NoView
    /\ IF wv[t].variant = "FileBufWriter"
       THEN WDropFileView(t, BufWriter_drop(FileWriter(wh[t], wv[t], fs, diskFree)))
       ELSE /\ stdoutOwner' = NoThread
            /\ last' = Call("drop FileOrStdoutLock", t, <<>>, <<>>, Ok(0),
                            NoSys, TRUE)
            /\ UNCHANGED <<fs, diskFree, wh>>
    /\ wv' = [wv EXCEPT ![t] = NoView]
    /\ UNCHANGED <<stdinVars, stdoutDev, stdoutBuf, sessions, readerVars,
                   accepted, base>>

\* the handle goes out of scope (the borrow rules want its view gone first)
WDropHandle(t) ==
    /\ wh[t] # NoHandle
    /\ wv[t] = NoView
    /\ wh' = [wh EXCEPT ![t] = NoHandle]
    /\ accepted' = [accepted EXCEPT ![t] = <<>>]
    /\ base' = [base EXCEPT ![t] = 0]
    /\ last' = Call("drop FileOrStdout", t, <<>>, <<>>, Ok(0), NoSys, TRUE)
    /\ UNCHANGED <<fsVars, stdinVars, stdoutVars, readerVars, wv>>

WriteAllReturns(t, p, d, g) ==
    /\ fs' = g.fs
    /\ diskFree' = g.free
    /\ stdoutBuf' = g.out.buf
    /\ stdoutDev' = g.out.s.data
    /\ last' = Call("FileOrStdout::write_all", t, p, d, g.res, g.sys, g.flushed)

\* the convenience function; on "-" it waits for the stdout lock
WriteAll(t, p, d) ==
    /\ Idle(t)
    /\ IF IsStdio(p)
       THEN /\ stdoutOwner = NoThread
            /\ sessions < MaxSessions
            /\ Len(stdoutDev) + Len(stdoutBuf) + Len(d) <= MaxLen
       ELSE NotOpen(Resolve(p))
    /\ WriteAllReturns(t, p, d,
           FileOrStdout_write_all(fs, diskFree,
               StdoutWriter(stdoutBuf, stdoutDev), sessions + 1, p, d))
    /\ sessions' = IF IsStdio(p) THEN sessions + 1 ELSE sessions
    /\ UNCHANGED <<stdinVars, stdoutOwner, readerVars, writerVars>>

(***************************************************************************)
(* Specifications.                                                         *)
(***************************************************************************)
\* The byte buffers callers pass and files start with: every length up to
\* MaxLen, text and non-text, neighbouring bytes distinct so that a byte out
\* of place shows.
Bufs ==
    {d \in SeqsUpTo(Byte, MaxLen) :
        /\ d # <<>> => d[1] = 97
        /\ \A i \in 1..(Len(d) - 1) : d[i] # d[i + 1]}

\* sizes of the buffers callers read into: empty, smaller than the
\* capacity of the buffered adapter, equal to it and larger
ReadSizes == {0, 1, BufCap, BufCap + 1}

\* amounts callers consume after a fill_buf
ConsumeSizes == 1..BufCap

InitProcess ==
    /\ stdinBuf = <<>>
    /\ stdinOwner = NoThread
    /\ stdoutDev = <<>>
    /\ stdoutBuf = <<>>
    /\ stdoutOwner = NoThread
    /\ sessions = 0
    /\ rh = [t \in Threads |-> NoHandle]
    /\ rv = [t \in Threads |-> NoView]
    /\ wh = [t \in Threads |-> NoHandle]
    /\ wv = [t \in Threads |-> NoView]
    /\ delivered = [t \in Threads |-> <<>>]
    /\ lost = [t \in Threads |-> {}]
    /\ accepted = [t \in Threads |-> <<>>]
    /\ base = [t \in Threads |-> 0]
    /\ last = Call("start", NoThread, <<>>, <<>>, Ok(0), NoSys, TRUE)

\* One thread working on the file "a-b"; the standard streams are idle.
\* The disk is full or has MaxDisk bytes left; with a file of k bytes on a
\* full disk exactly k bytes fit once the file is truncated.
Init ==
    /\ \E f \in {NoFile} \cup {RegFile(d) : d \in Bufs} :
           fs = [n \in FileNames |-> IF n = "a-b" THEN f ELSE NoFile]
    /\ diskFree \in {0, MaxDisk}
    /\ stdin = [data |-> <<>>, off |-> 0]
    /\ InitProcess

Next ==
    \E t \in {"T1"} :
        \/ RFromPath(t, PAB)
        \/ RLock(t)
        \/ \E n \in ReadSizes : RRead(t, n)
        \/ RFillBuf(t)
        \/ \E n \in ConsumeSizes : RConsume(t, n)
        \/ RDropView(t)
        \/ RDropHandle(t)
        \/ ReadToString(t, PAB)
        \/ WFromPath(t, PAB)
        \/ WLock(t)
        \/ \E d \in Bufs : WWrite(t, d)
        \/ WFlush(t)
        \/ WDropView(t)
        \/ WDropHandle(t)
        \/ \E d \in Bufs : WriteAll(t, PAB, d)

Spec == Init /\ [][Next]_vars

(***************************************************************************)
(* Properties checked under Spec (one thread, the file "a-b").             *)
(***************************************************************************)
\* the entry a non-sentinel path of the last call names
LastFile == fs[Resolve(last.path)]

\* an independent read of path p from its start (std::fs::read)
FreshRead(p) ==
    IF Resolve(p) = NoName \/ ~fs[Resolve(p)].exists THEN Err("NotFound")
    ELSE Ok(Read_read_to_end([rem |-> <<>>, data |-> fs[Resolve(p)].data,
                              off |-> 0], BufCap, <<>>).bytes)

\* the error names the path it is about
Identifies(e, p) == "path" \in DOMAIN e /\ e.path = p

IsPrefix(a, b) == Len(a) <= Len(b) /\ Take(b, Len(a)) = a

WroteAllTo(p) ==
    /\ last.fn = "FileOrStdout::write_all"
    /\ last.path = p
    /\ last.res.ok

\* C1 (as claimed): FileOrStdout::write_all on a file path returns Ok only
\* if the flush of the buffered bytes succeeded and every byte of the buffer
\* is in the file; a failed or partial flush makes it return an error.
C1_OkOnlyWhenFlushed ==
    WroteAllTo(PAB) => last.flushed /\ Len(LastFile.data) = Len(last.data)

\* C2 (as claimed): after a write_all(p, b) that returned Ok, a fresh read
\* of p returns exactly b.
C2_WriteAllRoundTrip == WroteAllTo(PAB) => FreshRead(PAB) = Ok(last.data)

\* C5 (as claimed): of two successive write_all calls on one path that both
\* return Ok, the second leaves the file holding exactly its own buffer.
C5_SecondWriteAllWins ==
    [][(WroteAllTo(PAB) /\ WroteAllTo(PAB)') => fs'["a-b"].data = last'.data]_vars

\* the file handle of thread t's writer, the bytes written to it since the
\* current view was taken
SinceLock(t) == Drop(fs[wh[t].name].data, base[t])

ViewEnded(t) ==
    /\ last.t = t
    /\ \/ last.fn = "drop FileOrStdoutLock"
       \/ last.fn = "flush" /\ last.res.ok

DeliveredBytes(t) == [i \in 1..Len(delivered[t]) |-> delivered[t][i].b]

\* a read into a non-empty buffer has just returned 0 to thread t
AtEndOfInput(t) ==
    /\ last.fn = "read"
    /\ last.t = t
    /\ last.data > 0
    /\ last.res.val = 0

\* C4: read_to_string(p) returns the file's contents when they are text
\* (InvalidData when they are not, NotFound when there is no file); reading
\* p through from_path, lock and read hands out bytes of the file in order,
\* signals end of input only when the descriptor is at the end with nothing
\* buffered, and by then a view that started at the beginning has handed out
\* exactly the contents, the string read_to_string returns.
C4_BothRoutesYieldContents ==
    /\ (last.fn = "FileOrStdin::read_to_string" /\ last.path = PAB) =>
           IF ~LastFile.exists THEN last.res = Err("NotFound")
           ELSE IF IsUtf8(LastFile.data) THEN last.res = Ok(LastFile.data)
           ELSE last.res = Err("InvalidData")
    /\ \A t \in Threads :
           rh[t].variant = "File" =>
               /\ \A i \in 1..Len(delivered[t]) :
                      delivered[t][i].b = fs[rh[t].name].data[delivered[t][i].pos + 1]
               /\ (rv[t].variant = "FileBufReader" /\ AtEndOfInput(t)) =>
                      /\ rh[t].off = Len(fs[rh[t].name].data)
                      /\ rv[t].rem = <<>>
                      /\ lost[t] = {} =>
                             /\ DeliveredBytes(t) = fs[rh[t].name].data
                             /\ IsUtf8(fs[rh[t].name].data) =>
                                    FileOrStdin_read_to_string(fs, PAB).res
                                        = Ok(DeliveredBytes(t))

\* C4 witness: a view has read a text file of MaxLen bytes to the end
C4_Witness ==
    /\ rv["T1"].variant = "FileBufReader"
    /\ AtEndOfInput("T1")
    /\ lost["T1"] = {}
    /\ Len(delivered["T1"]) = MaxLen
    /\ IsUtf8(fs["a-b"].data)

\* C7 (as claimed): from_path / read_to_string on a path with no file fail
\* with an error that identifies the path and create nothing; from_path for
\* writing on such a path succeeds and creates the file.
C7_MissingFile ==
    [][~fs["a-b"].exists =>
          /\ (last'.fn \in {"FileOrStdin::from_path", "FileOrStdin::read_to_string"}
                  /\ last'.path = PAB)
                 => /\ ~last'.res.ok
                    /\ Identifies(last'.res.err, PAB)
                    /\ fs' = fs
          /\ (last'.fn = "FileOrStdout::from_path" /\ last'.path = PAB)
                 => last'.res.ok /\ fs'["a-b"].exists]_vars

\* positions of the bytes handed to thread t
DeliveredAt(t) == {delivered[t][i].pos : i \in 1..Len(delivered[t])}

\* C10: for a file-backed FileOrStdin, the handle stays open when a view is
\* released; bytes are handed out at strictly increasing positions (none
\* twice); a byte a released view had read ahead and not consumed is never
\* handed out; and whatever a view hands out next lies at or after the
\* descriptor's offset less its own read-ahead, beyond everything handed
\* out or dropped before -- a fresh view starts with no read-ahead, at the
\* descriptor's offset.
C10_ReadAheadIsLost ==
    \A t \in Threads :
        rh[t].variant = "File" =>
            /\ \A i, j \in 1..Len(delivered[t]) :
                   i < j => delivered[t][i].pos < delivered[t][j].pos
            /\ lost[t] \cap DeliveredAt(t) = {}
            /\ \A q \in lost[t] \cup DeliveredAt(t) :
                   q < rh[t].off - (IF rv[t].variant = "FileBufReader"
                                    THEN Len(rv[t].rem) ELSE 0)
            /\ (last.fn = "FileOrStdin::lock" /\ last.t = t) =>
                   rv[t] = [variant |-> "FileBufReader", rem |-> <<>>]

\* C10 witness: a view dropped a byte it had read ahead and a later view of
\* the same handle handed out a byte beyond it
C10_Witness ==
    /\ rh["T1"].variant = "File"
    /\ \E q \in lost["T1"] : \E p \in DeliveredAt("T1") : q < p

(***************************************************************************)
(* SpecStdio: two threads, each with handles made from the path "-".       *)
(***************************************************************************)
\* what the process finds on its standard input
StdinText == [i \in 1..BufCap |-> IF i % 2 = 1 THEN 97 ELSE 98]

\* the buffers the threads write to standard output
StdoutBufs == {d \in Bufs : Len(d) \in 1..BufCap /\ IsUtf8(d)}

InitStdio ==
    /\ fs = [n \in FileNames |-> NoFile]
    /\ diskFree = 0
    /\ stdin = [data |-> StdinText, off |-> 0]
    /\ InitProcess

NextStdio ==
    \E t \in Threads :
        \/ RFromPath(t, PDash)
        \/ RLock(t)
        \/ \E n \in ReadSizes : RRead(t, n)
        \/ RFillBuf(t)
        \/ \E n \in ConsumeSizes : RConsume(t, n)
        \/ RDropView(t)
        \/ RDropHandle(t)
        \/ ReadToString(t, PDash)
        \/ WFromPath(t, PDash)
        \/ WLock(t)
        \/ \E d \in StdoutBufs : WWrite(t, d)
        \/ WFlush(t)
        \/ WDropView(t)
        \/ WDropHandle(t)
        \/ \E d \in StdoutBufs : WriteAll(t, PDash, d)

SpecStdio == InitStdio /\ [][NextStdio]_vars

\* the bytes written to standard output, in the order they entered the
\* stream: those on the terminal, then those still buffered
StdoutStream == stdoutDev \o stdoutBuf

\* C8: at most one thread holds a view of standard input and at most one a
\* view of standard output (the view's holder owns the stream's lock, so a
\* lock() from another thread has not returned), and the bytes written
\* through one stdout view form one block of the output stream, not broken
\* up by bytes of another view.
C8_StdStreamExclusion ==
    /\ \A t \in Threads :
           /\ rv[t].variant = "StdinLock" <=> stdinOwner = t
           /\ wv[t].variant = "StdoutLock" <=> stdoutOwner = t
    /\ \A t, u \in Threads :
           t # u => /\ ~(rv[t].variant = "StdinLock" /\ rv[u].variant = "StdinLock")
                    /\ ~(wv[t].variant = "StdoutLock" /\ wv[u].variant = "StdoutLock")
    /\ \A i, j, k \in 1..Len(StdoutStream) :
           (i < j /\ j < k /\ StdoutStream[i].s = StdoutStream[k].s)
               => StdoutStream[j].s = StdoutStream[i].s

\* C8 witness: T1 holds a stdout view and has written through it after
\* another view's bytes, while T2 has a Stdout handle and no view yet
C8_Witness ==
    /\ wv["T1"].variant = "StdoutLock"
    /\ wh["T2"].variant = "Stdout"
    /\ wv["T2"] = NoView
    /\ \E i, j \in 1..Len(StdoutStream) :
           /\ i < j
           /\ StdoutStream[i].s # StdoutStream[j].s
           /\ StdoutStream[j].s = wv["T1"].session

(***************************************************************************)
(* SpecPaths: one thread resolving every kind of path.  The working        *)
(* directory may hold a file named "-" and a file named "a-b".             *)
(***************************************************************************)
InitPaths ==
    /\ \E f \in {NoFile, RegFile(<<97>>)}, g \in {NoFile, RegFile(<<98>>)} :
           fs = [n \in FileNames |->
                    IF n = "-" THEN f ELSE IF n = "a-b" THEN g ELSE NoFile]
    /\ diskFree = MaxDisk
    /\ stdin = [data |-> StdinText, off |-> 0]
    /\ InitProcess

NextPaths ==
    \E t \in {"T1"} :
        \/ \E p \in AllPaths : RFromPath(t, p)
        \/ RDropHandle(t)
        \/ \E p \in AllPaths : ReadToString(t, p)
        \/ \E p \in AllPaths : WFromPath(t, p)
        \/ WDropHandle(t)
        \/ \E p \in AllPaths : WriteAll(t, p, <<98>>)

SpecPaths == InitPaths /\ [][NextPaths]_vars

FromPathCalled(l) == l.fn \in {"FileOrStdin::from_path", "FileOrStdout::from_path"}

\* C6: from_path gives the standard-stream variant exactly for the path "-";
\* for "-" it succeeds without a file system call and leaves the directory
\* and the disk as they were, a file named "-" included; for every other
\* path ("", "--", "./-", "a-b", a non-text name) it makes the open or
\* create call on that very path and a handle it returns is a File.
C6_SentinelOnly ==
    /\ [](FromPathCalled(last) =>
            /\ (last.res.ok /\ last.res.val.variant \in {"Stdin", "Stdout"})
                   <=> last.path = PDash
            /\ last.path = PDash => last.res.ok /\ last.sys = NoSys
            /\ last.path # PDash =>
                   /\ last.sys.path = last.path
                   /\ last.sys.op = IF last.fn = "FileOrStdin::from_path"
                                    THEN "open" ELSE "create"
                   /\ last.res.ok =>
                          /\ last.res.val.variant = "File"
                          /\ last.res.val.name = Resolve(last.path))
    /\ [][(FromPathCalled(last') /\ last'.path = PDash) =>
              fs' = fs /\ diskFree' = diskFree]_vars

\* C6 witness: from_path("-") returned the Stdout handle while a file named
\* "-" sits in the directory with its contents
C6_Witness ==
    /\ last.fn = "FileOrStdout::from_path"
    /\ last.path = PDash
    /\ wh["T1"].variant = "Stdout"
    /\ fs["-"] = RegFile(<<97>>)

(***************************************************************************)
(* SpecVariant: one thread using handles of both variants, with every      *)
(* operation of handles and views.                                         *)
(***************************************************************************)
InitVariant ==
    /\ fs = [n \in FileNames |-> IF n = "a-b" THEN RegFile(<<97>>) ELSE NoFile]
    /\ diskFree = MaxDisk
    /\ stdin = [data |-> <<98>>, off |-> 0]
    /\ InitProcess

BothPaths == {PDash, PAB}

NextVariant ==
    \E t \in {"T1"} :
        \/ \E p \in BothPaths : RFromPath(t, p)
        \/ RLock(t)
        \/ \E n \in {ProbeSize, BufCap} : RRead(t, n)
        \/ RFillBuf(t)
        \/ RConsume(t, ProbeSize)
        \/ RDropView(t)
        \/ RDropHandle(t)
        \/ \E p \in BothPaths : ReadToString(t, p)
        \/ \E p \in BothPaths : WFromPath(t, p)
        \/ WLock(t)
        \/ WWrite(t, <<98>>)
        \/ WFlush(t)
        \/ WDropView(t)
        \/ WDropHandle(t)
        \/ \E p \in BothPaths : WriteAll(t, p, <<98>>)

SpecVariant == InitVariant /\ [][NextVariant]_vars

\* C9: a handle is a File or a standard stream, a view is the buffered
\* adapter of a File handle or the lock of a standard-stream handle, the
\* view's variant matches its handle's, and no step of a living handle
\* changes its variant.
C9_VariantFixed ==
    /\ [](\A t \in Threads :
            /\ rh[t].variant \in {"None", "File", "Stdin"}
            /\ wh[t].variant \in {"None", "File", "Stdout"}
            /\ rv[t].variant =
                   (IF rv[t] = NoView THEN "None"
                    ELSE IF rh[t].variant = "File" THEN "FileBufReader"
                    ELSE IF rh[t].variant = "Stdin" THEN "StdinLock"
                    ELSE "no handle")
            /\ wv[t].variant =
                   (IF wv[t] = NoView THEN "None"
                    ELSE IF wh[t].variant = "File" THEN "FileBufWriter"
                    ELSE IF wh[t].variant = "Stdout" THEN "StdoutLock"
                    ELSE "no handle"))
    /\ [][\A t \in Threads :
            /\ (rh[t] # NoHandle /\ rh'[t] # NoHandle) =>
                   rh'[t].variant = rh[t].variant
            /\ (wh[t] # NoHandle /\ wh'[t] # NoHandle) =>
                   wh'[t].variant = wh[t].variant]_vars

\* C9 witness: a view of a File handle has served fill_buf and consume, and
\* the handle and the view are still the File variant
C9_Witness ==
    /\ last.fn = "consume"
    /\ rh["T1"].variant = "File"
    /\ rv["T1"].variant = "FileBufReader"

====
